---- MODULE Spec2Model ----
(***************************************************************************)
(* Model of packages/mongo/replication_store.js: the ReplicationStore that *)
(* applies DDP data messages (added / changed / removed / replace) to a    *)
(* local collection, bracketed by beginUpdate / endUpdate.                 *)
(*                                                                         *)
(* A document is a function from a finite set of keys to values; a stored  *)
(* document always has the key "_id".  JavaScript's undefined is the value *)
(* `undefined`; a key that is not in a document reads as undefined.        *)
(***************************************************************************)
EXTENDS Integers, Sequences, FiniteSets, TLC

\* ------------------------------------------------------------------ bounds
MaxBatches == 2      \* beginUpdate calls explored in one behaviour
MaxApply == 2        \* update calls explored inside one batch
MaxMutations == 3    \* local mutations explored around saveOriginals

\* ------------------------------------------------------------ value domains
\* the batchSize arguments explored: none, one and several expected updates
BatchSizes == {0, 1, 2}
Ids == {1, 2}
FieldNames == {"a", "b"}
Vals == {1, 2}
undefined == 0

\* the values a field takes in the messages explored: field "a" takes
\* two, so that a set can change a value, and "b" one
ValsOf(k) == IF k = "a" THEN Vals ELSE {1}

\* the maps from some of the keys K to a value of the key, or one of V
PartialMaps(K, V) ==
  UNION {{f \in [S -> Vals \cup V] : \A k \in S : f[k] \in ValsOf(k) \cup V} : S \in SUBSET K}

EmptyMap == [k \in {} |-> undefined]

\* {_id: id, ...fields}
MkDoc(id, fields) ==
  [k \in {"_id"} \cup DOMAIN fields |-> IF k = "_id" THEN id ELSE fields[k]]

\* the keys of a document other than _id, with their values
FieldsOf(d) == [k \in DOMAIN d \ {"_id"} |-> d[k]]

\* documents as they arrive from the server: JSON, so no undefined values
Docs == {MkDoc(i, f) : i \in Ids, f \in PartialMaps(FieldNames, {})}

\* doc[key] in JavaScript
Get(d, key) == IF key \in DOMAIN d THEN d[key] ELSE undefined

\* --------------------------------------------------------------- messages
\* msg.replace is <<>> when it is undefined or null and <<d>> when it is a
\* document; hasFields tells whether msg.fields is defined.
Msg(tag, id, hasFields, fields, replace) ==
  [msg |-> tag, id |-> id, hasFields |-> hasFields, fields |-> fields, replace |-> replace]

AddedMsgs ==
  {Msg("added", i, TRUE, f, <<>>) : i \in Ids, f \in PartialMaps(FieldNames, {})}
    \cup {Msg("added", i, FALSE, EmptyMap, <<>>) : i \in Ids}

ChangedMsgs ==
  {Msg("changed", i, TRUE, f, <<>>) :
     i \in Ids, f \in PartialMaps(FieldNames, {undefined})}
    \cup {Msg("changed", i, FALSE, EmptyMap, <<>>) : i \in Ids}

RemovedMsgs == {Msg("removed", i, FALSE, EmptyMap, <<>>) : i \in Ids}

\* a replacement document carries an identifier of its own: every document
\* with the message's identifier, and one document with another identifier
ReplaceMsgs ==
  UNION {{Msg("replace", i, FALSE, EmptyMap, r) :
            r \in {<<>>} \cup {<<d>> : d \in {e \in Docs : e["_id"] = i}}
                        \cup {<<MkDoc(j, [k \in {"a"} |-> 1])>> : j \in Ids \ {i}}} :
         i \in Ids}

\* tags the switch has no case for; "replaced" carries a replace payload
OtherTags == {"replaced", "bogus"}

OtherMsgs ==
  {Msg("replaced", i, FALSE, EmptyMap, <<MkDoc(i, [k \in {"a"} |-> 1])>>) : i \in Ids}
    \cup {Msg("bogus", i, FALSE, EmptyMap, <<>>) : i \in Ids}

Messages == AddedMsgs \cup ChangedMsgs \cup RemovedMsgs \cup ReplaceMsgs \cup OtherMsgs

NoMsg == Msg("", 1, FALSE, EmptyMap, <<>>)

\* ------------------------------------------------------------------ errors
NoError == "none"
ErrAddPresent == "Expected not to find a document already present for an add"
ErrRemovedMissing == "Expected to find a document already present for removed"
ErrChangedMissing == "Expected to find a document to change"
ErrUnknownMessage == "I don't know how to deal with this message"
ErrTypeError == "TypeError"
ErrStore == "store contract violation"



\* ------------------------------------------------------------------- state
VARIABLES
  docs,       \* collection._docs: mongoId -> document, for the ids present
  paused,     \* collection.paused: observers are paused
  inBatch,    \* the caller is between beginUpdate and endUpdate
  batch,      \* what the current (or last) bracket has done so far, and the
              \* replica states the observers were shown before its endUpdate
  hist,       \* the last call made on the ReplicationStore and its effect, and
              \* whether the call before it added the document it names
  nBatches,   \* beginUpdate calls so far
  nPause,     \* collection.pauseObservers calls so far
  nResume,    \* collection.resumeObservers calls so far
  ledger      \* the collection's saved originals, and what the caller has
              \* done with them

vars == <<docs, paused, inBatch, batch, hist, nBatches, nPause, nResume, ledger>>

\* ---------------------------------------------------------- the collection
\* A store call as the collection receives it.
Call(op, id, arg) == [op |-> op, id |-> id, arg |-> arg]

\* The result of running code against the collection: the documents left,
\* the store calls issued in order, and the error thrown (NoError if none).
Outcome(d, calls, err) == [docs |-> d, calls |-> calls, error |-> err]

\* MongoID.idParse: the wire identifier to the key of collection._docs.
\* Identifiers are opaque here; the wire form and the key are the same value.
idParse(id) == id

\* EJSON.equals: deep equality of two values
EJSONequals(a, b) == a = b

\* collection._docs.get(mongoId): <<>> when there is no such document
lookup(d, mongoId) == IF mongoId \in DOMAIN d THEN <<d[mongoId]>> ELSE <<>>

\* collection.insert(doc): fails if a document with that identifier exists
collectionInsert(d, doc) ==
  IF doc["_id"] \in DOMAIN d
    THEN Outcome(d, <<Call("insert", doc["_id"], doc)>>, ErrStore)
    ELSE Outcome((doc["_id"] :> doc) @@ d, <<Call("insert", doc["_id"], doc)>>, NoError)

\* collection.remove(id): fails if no document with that identifier exists
collectionRemove(d, id) ==
  IF id \notin DOMAIN d
    THEN Outcome(d, <<Call("remove", id, EmptyMap)>>, ErrStore)
    ELSE Outcome([i \in DOMAIN d \ {id} |-> d[i]], <<Call("remove", id, EmptyMap)>>, NoError)

\* collection.remove({}): clears every document
collectionRemoveAll(d) ==
  Outcome([i \in {} |-> EmptyMap], <<Call("removeAll", 0, EmptyMap)>>, NoError)

IsModifier(mod) == "$set" \in DOMAIN mod \/ "$unset" \in DOMAIN mod

\* the document after the patch {$set, $unset}
ApplyModifier(doc, mod) ==
  LET set == IF "$set" \in DOMAIN mod THEN mod["$set"] ELSE EmptyMap
      unset == IF "$unset" \in DOMAIN mod THEN DOMAIN mod["$unset"] ELSE {}
  IN [k \in (DOMAIN doc \cup DOMAIN set) \ unset |->
        IF k \in DOMAIN set THEN set[k] ELSE doc[k]]

\* collection.update(id, mod): fails if no document with that identifier
\* exists.  A patch changes the fields it names; a document without
\* operators overwrites every field.  The contract does not say what an
\* overwrite by a document carrying another identifier does: the store may
\* refuse it, or overwrite the fields and keep the identifier.
collectionUpdate(d, id, mod) ==
  LET call == <<Call("update", id, mod)>> IN
  IF id \notin DOMAIN d THEN {Outcome(d, call, ErrStore)}
  ELSE IF IsModifier(mod)
    THEN {Outcome([d EXCEPT ![id] = ApplyModifier(d[id], mod)], call, NoError)}
  ELSE IF Get(mod, "_id") \in {undefined, id}
    THEN {Outcome([d EXCEPT ![id] = MkDoc(id, FieldsOf(mod))], call, NoError)}
  ELSE {Outcome(d, call, ErrStore),
        Outcome([d EXCEPT ![id] = MkDoc(id, FieldsOf(mod))], call, NoError)}

\* collection.pauseObservers() / collection.resumeObservers()
pauseObservers(p) == TRUE
resumeObservers(p) == FALSE

\* the store calls that change documents
MutatingOps == {"insert", "update", "remove", "removeAll"}

\* the originals of the documents touched since collection.saveOriginals():
\* id -> <<>> for a document that did not exist, <<doc>> for one that did
NoOriginals == [i \in {} |-> <<>>]

\* collection.saveOriginals(): opens a capture window with nothing captured
collectionSaveOriginals(l) ==
  [l EXCEPT !.open = TRUE, !.saved = NoOriginals]

\* collection.retrieveOriginals(): returns what was captured and leaves
\* nothing behind
collectionRetrieveOriginals(l) ==
  [ledger |-> [l EXCEPT !.open = FALSE, !.saved = NoOriginals], ret |-> l.saved]

\* the identifiers the successful calls of out have mutated, from documents pre
MutatedIds(pre, out) ==
  IF out.error # NoError THEN {}
  ELSE UNION {IF out.calls[i].op = "removeAll" THEN DOMAIN pre
              ELSE IF out.calls[i].op \in MutatingOps THEN {out.calls[i].id}
              ELSE {} : i \in DOMAIN out.calls}

\* the saved originals after the calls of out: the state before the call of
\* each identifier touched for the first time in the window
SaveOriginal(l, pre, out) ==
  IF ~l.open THEN l
  ELSE [l EXCEPT !.saved =
          [i \in DOMAIN l.saved \cup MutatedIds(pre, out) |->
             IF i \in DOMAIN l.saved THEN l.saved[i] ELSE lookup(pre, i)]]

\* ------------------------------------------------------- ReplicationStore
\* Variant of retrieveOriginals: the call is made and its result dropped.
retrieveOriginalsNoReturn(l) ==
  [ledger |-> collectionRetrieveOriginals(l).ledger, ret |-> NoOriginals]

\* saveOriginals()
saveOriginals(l) == collectionSaveOriginals(l)

\* retrieveOriginals()
retrieveOriginals(l) == collectionRetrieveOriginals(l)

\* Variant of _processReplace: removes without looking at doc.
processReplaceRemoveUnchecked(d, mongoId, doc, msg) ==
  IF msg.replace = <<>>
    THEN {collectionRemove(d, mongoId)}
  ELSE IF doc = <<>>
    THEN {collectionInsert(d, msg.replace[1])}
  ELSE collectionUpdate(d, mongoId, msg.replace[1])

\* Variant of _processReplace: a present document is patched with the
\* replacement's fields instead of being overwritten.
processReplaceMerge(d, mongoId, doc, msg) ==
  IF msg.replace = <<>>
    THEN IF doc # <<>>
           THEN {collectionRemove(d, mongoId)}
           ELSE {Outcome(d, <<>>, NoError)}
  ELSE IF doc = <<>>
    THEN {collectionInsert(d, msg.replace[1])}
  ELSE collectionUpdate(d, mongoId, [o \in {"$set"} |-> FieldsOf(msg.replace[1])])

\* _processReplace(mongoId, doc, msg)
processReplace(d, mongoId, doc, msg) ==
  IF msg.replace = <<>>
    THEN IF doc # <<>>
           THEN {collectionRemove(d, mongoId)}
           ELSE {Outcome(d, <<>>, NoError)}
  ELSE IF doc = <<>>
    THEN {collectionInsert(d, msg.replace[1])}
  ELSE collectionUpdate(d, mongoId, msg.replace[1])

\* Variant of _processAdded: inserts {_id: mongoId} without the fields.
processAddedNoFields(d, mongoId, msg) ==
  {collectionInsert(d, MkDoc(mongoId, EmptyMap))}

\* Variant of _processAdded: while the observers are paused the insert is
\* put off.
processAddedDeferred(d, mongoId, msg) ==
  IF paused THEN {Outcome(d, <<>>, NoError)}
  ELSE {collectionInsert(d, MkDoc(mongoId, msg.fields))}

\* _processAdded(mongoId, msg): {_id: mongoId, ...msg.fields}; spreading an
\* undefined msg.fields adds no key
processAdded(d, mongoId, msg) ==
  {collectionInsert(d, MkDoc(mongoId, msg.fields))}

\* Variant of _processRemoved: the collection is not called.
processRemovedNothing(d, mongoId, doc, msg) ==
  {Outcome(d, <<>>, NoError)}

\* Variant of _processRemoved: remove({}) instead of remove(mongoId).
processRemovedAll(d, mongoId, doc, msg) ==
  {collectionRemoveAll(d)}

\* _processRemoved(mongoId, doc, msg)
processRemoved(d, mongoId, doc, msg) ==
  {collectionRemove(d, mongoId)}

\* modifier[op][key] = value, creating modifier[op] when it is not there
SetIn(modifier, op, key, value) ==
  [o \in DOMAIN modifier \cup {op} |->
     IF o = op
       THEN (key :> value) @@ (IF op \in DOMAIN modifier THEN modifier[op] ELSE EmptyMap)
       ELSE modifier[o]]

\* Variant of the loop: no typeof test, an undefined value goes to $set.
RECURSIVE buildModifierNoUnset(_, _, _, _)
buildModifierNoUnset(keys, doc, fields, modifier) ==
  IF keys = {} THEN modifier
  ELSE LET key == CHOOSE k \in keys : TRUE
           value == fields[key]
           rest == keys \ {key}
       IN IF EJSONequals(Get(doc, key), value)
            THEN buildModifierNoUnset(rest, doc, fields, modifier)
          ELSE buildModifierNoUnset(rest, doc, fields, SetIn(modifier, "$set", key, value))

\* Variant of the loop: no EJSON.equals test, every key goes to the patch.
RECURSIVE buildModifierNoEquals(_, _, _, _)
buildModifierNoEquals(keys, doc, fields, modifier) ==
  IF keys = {} THEN modifier
  ELSE LET key == CHOOSE k \in keys : TRUE
           value == fields[key]
           rest == keys \ {key}
       IN IF value = undefined
            THEN buildModifierNoEquals(rest, doc, fields, SetIn(modifier, "$unset", key, 1))
          ELSE buildModifierNoEquals(rest, doc, fields, SetIn(modifier, "$set", key, value))

\* the keys.forEach loop of _processChanged over the keys still to visit
RECURSIVE buildModifier(_, _, _, _)
buildModifier(keys, doc, fields, modifier) ==
  IF keys = {} THEN modifier
  ELSE LET key == CHOOSE k \in keys : TRUE
           value == fields[key]
           rest == keys \ {key}
       IN IF EJSONequals(Get(doc, key), value)
            THEN buildModifier(rest, doc, fields, modifier)
          ELSE IF value = undefined
            THEN buildModifier(rest, doc, fields, SetIn(modifier, "$unset", key, 1))
          ELSE buildModifier(rest, doc, fields, SetIn(modifier, "$set", key, value))

\* Variant of _processChanged: the modifier is forwarded without the test
\* that it has a key.
processChangedForwardsEmpty(d, mongoId, doc, msg) ==
  IF ~msg.hasFields THEN {Outcome(d, <<>>, ErrTypeError)}
  ELSE LET keys == DOMAIN msg.fields IN
    IF Cardinality(keys) > 0
      THEN collectionUpdate(d, mongoId, buildModifier(keys, doc[1], msg.fields, EmptyMap))
      ELSE {Outcome(d, <<>>, NoError)}

\* Variant of _processChanged: an undefined msg.fields is read as {}.
processChangedFieldsOptional(d, mongoId, doc, msg) ==
  LET keys == DOMAIN msg.fields IN
    IF Cardinality(keys) > 0
      THEN LET modifier == buildModifier(keys, doc[1], msg.fields, EmptyMap) IN
           IF Cardinality(DOMAIN modifier) > 0
             THEN collectionUpdate(d, mongoId, modifier)
             ELSE {Outcome(d, <<>>, NoError)}
      ELSE {Outcome(d, <<>>, NoError)}

\* _processChanged(mongoId, doc, msg); Object.keys(undefined) throws
processChanged(d, mongoId, doc, msg) ==
  IF ~msg.hasFields THEN {Outcome(d, <<>>, ErrTypeError)}
  ELSE LET keys == DOMAIN msg.fields IN
    IF Cardinality(keys) > 0
      THEN LET modifier == buildModifier(keys, doc[1], msg.fields, EmptyMap) IN
           IF Cardinality(DOMAIN modifier) > 0
             THEN collectionUpdate(d, mongoId, modifier)
             ELSE {Outcome(d, <<>>, NoError)}
      ELSE {Outcome(d, <<>>, NoError)}

\* Variant of update: 'added' does not test doc.
updateAddUnchecked(d, msg) ==
  LET mongoId == idParse(msg.id)
      doc == lookup(d, mongoId)
  IN CASE msg.msg = "replace" -> processReplace(d, mongoId, doc, msg)
       [] msg.msg = "added" -> processAdded(d, mongoId, msg)
       [] msg.msg = "removed" ->
            IF doc = <<>> THEN {Outcome(d, <<>>, ErrRemovedMissing)}
            ELSE processRemoved(d, mongoId, doc, msg)
       [] msg.msg = "changed" ->
            IF doc = <<>> THEN {Outcome(d, <<>>, ErrChangedMissing)}
            ELSE processChanged(d, mongoId, doc, msg)
       [] OTHER -> {Outcome(d, <<>>, ErrUnknownMessage)}

\* Variant of update: the first case is 'replaced' instead of 'replace'.
updateReplacedTag(d, msg) ==
  LET mongoId == idParse(msg.id)
      doc == lookup(d, mongoId)
  IN CASE msg.msg = "replaced" -> processReplace(d, mongoId, doc, msg)
       [] msg.msg = "added" ->
            IF doc # <<>> THEN {Outcome(d, <<>>, ErrAddPresent)}
            ELSE processAdded(d, mongoId, msg)
       [] msg.msg = "removed" ->
            IF doc = <<>> THEN {Outcome(d, <<>>, ErrRemovedMissing)}
            ELSE processRemoved(d, mongoId, doc, msg)
       [] msg.msg = "changed" ->
            IF doc = <<>> THEN {Outcome(d, <<>>, ErrChangedMissing)}
            ELSE processChanged(d, mongoId, doc, msg)
       [] OTHER -> {Outcome(d, <<>>, ErrUnknownMessage)}

\* Variant of update: 'removed' does not test doc.
updateRemoveUnchecked(d, msg) ==
  LET mongoId == idParse(msg.id)
      doc == lookup(d, mongoId)
  IN CASE msg.msg = "replace" -> processReplace(d, mongoId, doc, msg)
       [] msg.msg = "added" ->
            IF doc # <<>> THEN {Outcome(d, <<>>, ErrAddPresent)}
            ELSE processAdded(d, mongoId, msg)
       [] msg.msg = "removed" -> processRemoved(d, mongoId, doc, msg)
       [] msg.msg = "changed" ->
            IF doc = <<>> THEN {Outcome(d, <<>>, ErrChangedMissing)}
            ELSE processChanged(d, mongoId, doc, msg)
       [] OTHER -> {Outcome(d, <<>>, ErrUnknownMessage)}

\* Variant of update: the observers are resumed before an error is thrown.
updateResumeOnError(d, msg) ==
  LET mongoId == idParse(msg.id)
      doc == lookup(d, mongoId)
      resume == <<Call("resumeObservers", 0, EmptyMap)>>
  IN CASE msg.msg = "replace" -> processReplace(d, mongoId, doc, msg)
       [] msg.msg = "added" ->
            IF doc # <<>> THEN {Outcome(d, resume, ErrAddPresent)}
            ELSE processAdded(d, mongoId, msg)
       [] msg.msg = "removed" ->
            IF doc = <<>> THEN {Outcome(d, resume, ErrRemovedMissing)}
            ELSE processRemoved(d, mongoId, doc, msg)
       [] msg.msg = "changed" ->
            IF doc = <<>> THEN {Outcome(d, resume, ErrChangedMissing)}
            ELSE processChanged(d, mongoId, doc, msg)
       [] OTHER -> {Outcome(d, resume, ErrUnknownMessage)}

\* update(msg) run against the documents d: the possible outcomes
update(d, msg) ==
  LET mongoId == idParse(msg.id)
      doc == lookup(d, mongoId)
  IN CASE msg.msg = "replace" -> processReplace(d, mongoId, doc, msg)
       [] msg.msg = "added" ->
            IF doc # <<>> THEN {Outcome(d, <<>>, ErrAddPresent)}
            ELSE processAdded(d, mongoId, msg)
       [] msg.msg = "removed" ->
            IF doc = <<>> THEN {Outcome(d, <<>>, ErrRemovedMissing)}
            ELSE processRemoved(d, mongoId, doc, msg)
       [] msg.msg = "changed" ->
            IF doc = <<>> THEN {Outcome(d, <<>>, ErrChangedMissing)}
            ELSE processChanged(d, mongoId, doc, msg)
       [] OTHER -> {Outcome(d, <<>>, ErrUnknownMessage)}

\* Variant of beginUpdate: pauses for batchSize >= 1.
beginUpdatePauseFromOne(d, batchSize, reset) ==
  LET pause == IF batchSize >= 1 \/ reset
                 THEN <<Call("pauseObservers", 0, EmptyMap)>> ELSE <<>>
      removed == IF reset THEN collectionRemoveAll(d) ELSE Outcome(d, <<>>, NoError)
  IN Outcome(removed.docs, pause \o removed.calls, NoError)

\* Variant of beginUpdate: the reset removal sits under the batchSize test.
beginUpdateResetOnlyIfSeveral(d, batchSize, reset) ==
  LET pause == IF batchSize > 1 \/ reset
                 THEN <<Call("pauseObservers", 0, EmptyMap)>> ELSE <<>>
      removed == IF reset /\ batchSize > 1
                   THEN collectionRemoveAll(d) ELSE Outcome(d, <<>>, NoError)
  IN Outcome(removed.docs, pause \o removed.calls, NoError)

\* Variant of beginUpdate: the reset removal comes before the pause.
beginUpdateRemoveBeforePause(d, batchSize, reset) ==
  LET pause == IF batchSize > 1 \/ reset
                 THEN <<Call("pauseObservers", 0, EmptyMap)>> ELSE <<>>
      removed == IF reset THEN collectionRemoveAll(d) ELSE Outcome(d, <<>>, NoError)
  IN Outcome(removed.docs, removed.calls \o pause, NoError)

\* beginUpdate(batchSize, reset) run against the documents d
beginUpdate(d, batchSize, reset) ==
  LET pause == IF batchSize > 1 \/ reset
                 THEN <<Call("pauseObservers", 0, EmptyMap)>> ELSE <<>>
      removed == IF reset THEN collectionRemoveAll(d) ELSE Outcome(d, <<>>, NoError)
  IN Outcome(removed.docs, pause \o removed.calls, NoError)

\* Variant of endUpdate: resumes only if beginUpdate paused.
endUpdateIfPaused(d) ==
  Outcome(d, IF paused THEN <<Call("resumeObservers", 0, EmptyMap)>> ELSE <<>>, NoError)

\* endUpdate()
endUpdate(d) == Outcome(d, <<Call("resumeObservers", 0, EmptyMap)>>, NoError)

\* ------------------------------------------------------------ bookkeeping
Count(calls, op) == Cardinality({i \in DOMAIN calls : calls[i].op = op})

\* collection.paused after the calls, starting from p
PausedAfter(p, calls) ==
  IF Count(calls, "pauseObservers") > 0 THEN pauseObservers(p)
  ELSE IF Count(calls, "resumeObservers") > 0 THEN resumeObservers(p)
  ELSE p

\* the number of replica states the observers are shown while the calls of
\* out run from the documents pre with collection.paused = p: the changed
\* replica, unless the observers are paused when the change is made
Delivered(p, pre, out) ==
  IF out.docs = pre THEN 0
  ELSE LET i == CHOOSE j \in DOMAIN out.calls : out.calls[j].op \in MutatingOps
       IN IF PausedAfter(p, SubSeq(out.calls, 1, i - 1)) THEN 0 ELSE 1

Hist(op, msg, batchSize, reset, pre, out) ==
  [op |-> op, msg |-> msg, batchSize |-> batchSize, reset |-> reset,
   pre |-> pre, calls |-> out.calls, error |-> out.error, afterAdded |-> FALSE]

\* nothing saved, nothing asked yet; atSave, touched, nTouch, ret and nRet
\* record the caller's view: the documents when the window opened, the
\* identifiers it mutated in the window and how often, the last mapping
\* retrieveOriginals returned and the number of retrievals since the save
NoLedger ==
  [open |-> FALSE, saved |-> NoOriginals, atSave |-> [i \in {} |-> EmptyMap],
   touched |-> {}, nTouch |-> 0, ret |-> NoOriginals, nRet |-> 0, nMut |-> 0]

Init ==
  /\ docs = [i \in {} |-> EmptyMap]
  /\ paused = FALSE
  /\ inBatch = FALSE
  /\ batch = [size |-> 0, reset |-> FALSE, pauses |-> 0, resumes |-> 0, applies |-> 0,
              delivered |-> 0]
  /\ hist = [op |-> "new", msg |-> NoMsg, batchSize |-> 0, reset |-> FALSE,
             pre |-> [i \in {} |-> EmptyMap], calls |-> <<>>, error |-> NoError,
             afterAdded |-> FALSE]
  /\ nBatches = 0
  /\ nPause = 0
  /\ nResume = 0
  /\ ledger = NoLedger

\* the call before this one was an update that added the document id
JustAdded(id) ==
  /\ hist.op = "update"
  /\ hist.msg.msg = "added"
  /\ hist.error = NoError
  /\ hist.msg.id = id

\* the caller opens a batch
BeginUpdate ==
  /\ ~inBatch
  /\ nBatches < MaxBatches
  /\ \E batchSize \in BatchSizes, reset \in BOOLEAN :
       LET out == beginUpdate(docs, batchSize, reset) IN
       /\ docs' = out.docs
       /\ paused' = PausedAfter(paused, out.calls)
       /\ batch' = [size |-> batchSize, reset |-> reset,
                    pauses |-> Count(out.calls, "pauseObservers"),
                    resumes |-> 0, applies |-> 0,
                    delivered |-> Delivered(paused, docs, out)]
       /\ hist' = Hist("beginUpdate", NoMsg, batchSize, reset, docs, out)
       /\ ledger' = SaveOriginal(ledger, docs, out)
       /\ nPause' = nPause + Count(out.calls, "pauseObservers")
  /\ inBatch' = TRUE
  /\ nBatches' = nBatches + 1
  /\ UNCHANGED nResume

\* the caller applies one message of the batch
Update ==
  /\ inBatch
  /\ batch.applies < MaxApply
  /\ \E msg \in Messages : \E out \in update(docs, msg) :
       /\ docs' = out.docs
       /\ paused' = PausedAfter(paused, out.calls)
       /\ batch' = [batch EXCEPT !.applies = @ + 1,
                                 !.delivered = @ + Delivered(paused, docs, out),
                                 !.pauses = @ + Count(out.calls, "pauseObservers"),
                                 !.resumes = @ + Count(out.calls, "resumeObservers")]
       /\ hist' = [Hist("update", msg, batch.size, batch.reset, docs, out) EXCEPT
                     !.afterAdded = JustAdded(msg.id)]
       /\ ledger' = SaveOriginal(ledger, docs, out)
       /\ nPause' = nPause + Count(out.calls, "pauseObservers")
       /\ nResume' = nResume + Count(out.calls, "resumeObservers")
  /\ UNCHANGED <<inBatch, nBatches>>

\* the caller closes the batch
EndUpdate ==
  /\ inBatch
  /\ LET out == endUpdate(docs) IN
       /\ docs' = out.docs
       /\ paused' = PausedAfter(paused, out.calls)
       /\ batch' = [batch EXCEPT !.resumes = @ + Count(out.calls, "resumeObservers")]
       /\ hist' = Hist("endUpdate", NoMsg, batch.size, batch.reset, docs, out)
       /\ nResume' = nResume + Count(out.calls, "resumeObservers")
  /\ inBatch' = FALSE
  /\ UNCHANGED <<nBatches, nPause, ledger>>

Next == BeginUpdate \/ Update \/ EndUpdate

Spec == Init /\ [][Next]_vars

\* ------------------------------------------- around a method stub invocation
\* the replicas a stub can meet
Replicas == UNION {{r \in [S -> Docs] : \A i \in S : r[i]["_id"] = i} : S \in SUBSET Ids}

\* the mutations a stub makes on the collection
LocalMutations(d) ==
  {collectionInsert(d, doc) : doc \in Docs}
    \cup {collectionRemove(d, i) : i \in Ids}
    \cup UNION {collectionUpdate(d, doc["_id"], doc) : doc \in Docs}

InitOriginals ==
  /\ docs \in Replicas
  /\ paused = FALSE
  /\ inBatch = FALSE
  /\ batch = [size |-> 0, reset |-> FALSE, pauses |-> 0, resumes |-> 0, applies |-> 0,
              delivered |-> 0]
  /\ hist = [op |-> "new", msg |-> NoMsg, batchSize |-> 0, reset |-> FALSE,
             pre |-> [i \in {} |-> EmptyMap], calls |-> <<>>, error |-> NoError,
             afterAdded |-> FALSE]
  /\ nBatches = 0
  /\ nPause = 0
  /\ nResume = 0
  /\ ledger = NoLedger

\* the caller opens a capture window
SaveOriginals ==
  /\ ledger' = [saveOriginals(ledger) EXCEPT !.atSave = docs, !.touched = {},
                                             !.nTouch = 0, !.nRet = 0]
  /\ UNCHANGED <<docs, paused, inBatch, batch, hist, nBatches, nPause, nResume>>

\* the stub mutates the collection
LocalMutate ==
  /\ ledger.nMut < MaxMutations
  /\ \E out \in LocalMutations(docs) :
       /\ docs' = out.docs
       /\ ledger' = [SaveOriginal(ledger, docs, out) EXCEPT
                       !.nMut = @ + 1,
                       !.touched = IF ledger.open THEN @ \cup MutatedIds(docs, out) ELSE @,
                       !.nTouch = IF ledger.open /\ MutatedIds(docs, out) # {}
                                    THEN @ + 1 ELSE @]
  /\ UNCHANGED <<paused, inBatch, batch, hist, nBatches, nPause, nResume>>

\* the caller asks for the originals
RetrieveOriginals ==
  /\ LET r == retrieveOriginals(ledger) IN
       ledger' = [r.ledger EXCEPT !.ret = r.ret,
                                  !.nRet = IF ledger.nRet < 2 THEN @ + 1 ELSE @]
  /\ UNCHANGED <<docs, paused, inBatch, batch, hist, nBatches, nPause, nResume>>

NextOriginals == SaveOriginals \/ LocalMutate \/ RetrieveOriginals

SpecOriginals == InitOriginals /\ [][NextOriginals]_vars

\* ================================================================ properties
\* what the last call was, for the formulas below
Applied(tag) == hist.op = "update" /\ hist.msg.msg = tag
HistId == idParse(hist.msg.id)
PrePresent == HistId \in DOMAIN hist.pre
Without(d, id) == [i \in DOMAIN d \ {id} |-> d[i]]
SwitchTags == {"replace", "added", "removed", "changed"}

\* ----------------------------------------------------------------------- C1
\* C1: a protocol violation ('added' for an identifier that is present,
\* 'removed' or 'changed' for one that is absent, a tag update has no case
\* for) makes update throw the error of that violation, with no store call
\* issued and the documents as they were before the call.
C1_ViolationIsFatalAndMutationFree ==
  hist.op = "update" =>
    LET expected ==
          CASE hist.msg.msg = "added" /\ PrePresent -> ErrAddPresent
            [] hist.msg.msg = "removed" /\ ~PrePresent -> ErrRemovedMissing
            [] hist.msg.msg = "changed" /\ ~PrePresent -> ErrChangedMissing
            [] hist.msg.msg \notin SwitchTags -> ErrUnknownMessage
            [] OTHER -> NoError
    IN expected # NoError =>
         /\ hist.error = expected
         /\ hist.calls = <<>>
         /\ docs = hist.pre

\* an 'added' for a present identifier was refused in a replica of two documents
C1_Witness ==
  /\ Applied("added")
  /\ hist.error = ErrAddPresent
  /\ Cardinality(DOMAIN docs) = 2

\* ----------------------------------------------------------------------- C2
\* C2 as claimed: a message tagged "replaced" does not raise the
\* unknown-message error.
C2_ReplacedTagAccepted ==
  Applied("replaced") => hist.error # ErrUnknownMessage

\* C2 amended: update accepts exactly the tags "added", "changed", "removed"
\* and "replace".  A "replace" message is processed as the Replaced variant
\* (delete-if-present without a replacement, insert or overwrite with one)
\* and every other tag, "replaced" included, raises the unknown-message error.
C2_ReplaceTagAccepted ==
  hist.op = "update" =>
    /\ hist.error = ErrUnknownMessage <=> hist.msg.msg \notin SwitchTags
    /\ Applied("replace") =>
         IF hist.msg.replace = <<>>
           THEN /\ hist.error = NoError
                /\ docs = Without(hist.pre, HistId)
                /\ hist.calls = IF PrePresent THEN <<Call("remove", HistId, EmptyMap)>> ELSE <<>>
         ELSE IF PrePresent
           THEN hist.calls = <<Call("update", HistId, hist.msg.replace[1])>>
         ELSE hist.calls =
                <<Call("insert", hist.msg.replace[1]["_id"], hist.msg.replace[1])>>

\* a "replace" message carrying a document was applied to an absent identifier
C2_Witness ==
  /\ Applied("replace")
  /\ hist.msg.replace # <<>>
  /\ ~PrePresent
  /\ hist.error = NoError
  /\ HistId \in DOMAIN docs

\* ----------------------------------------------------------------------- C3
\* C3: 'added' with fields for an absent identifier leaves a document under
\* that identifier whose fields are exactly the message's fields; if the
\* replica was empty it now holds that document and nothing else.
C3_AddedInsertsExactlyTheDocument ==
  (Applied("added") /\ hist.msg.hasFields /\ ~PrePresent) =>
    /\ hist.error = NoError
    /\ HistId \in DOMAIN docs
    /\ docs[HistId]["_id"] = HistId
    /\ FieldsOf(docs[HistId]) = hist.msg.fields
    /\ DOMAIN hist.pre = {} => DOMAIN docs = {HistId}

\* a document of two fields was added to an empty replica
C3_Witness ==
  /\ Applied("added")
  /\ DOMAIN hist.pre = {}
  /\ DOMAIN hist.msg.fields = {"a", "b"}
  /\ hist.error = NoError

\* ----------------------------------------------------------------------- C4
\* C4: on an absent identifier 'removed' throws while 'replace' without a
\* replacement throws nothing and issues no store call; on a present
\* identifier both remove the document.  After a 'replace' without a
\* replacement, applying the same message again changes nothing.
C4_RemovedVersusReplaceNone ==
  /\ (Applied("removed") /\ ~PrePresent) => hist.error = ErrRemovedMissing
  /\ (Applied("replace") /\ hist.msg.replace = <<>> /\ ~PrePresent) =>
       /\ hist.error = NoError
       /\ hist.calls = <<>>
       /\ docs = hist.pre
  /\ ((Applied("removed") \/ (Applied("replace") /\ hist.msg.replace = <<>>)) /\ PrePresent) =>
       /\ hist.error = NoError
       /\ hist.calls = <<Call("remove", HistId, EmptyMap)>>
       /\ docs = Without(hist.pre, HistId)
  /\ (Applied("replace") /\ hist.msg.replace = <<>>) =>
       update(docs, hist.msg) = {Outcome(docs, <<>>, NoError)}

\* a 'replace' without a replacement met an absent identifier in a replica
\* that holds another document
C4_Witness ==
  /\ Applied("replace")
  /\ hist.msg.replace = <<>>
  /\ ~PrePresent
  /\ DOMAIN hist.pre # {}
  /\ hist.error = NoError

\* ----------------------------------------------------------------------- C5
\* C5 as claimed: after 'replace' with a replacement document, for a present
\* or an absent identifier, the document under the message's identifier has
\* exactly the replacement's fields.
C5_ReplaceSomeAlwaysLands ==
  (Applied("replace") /\ hist.msg.replace # <<>>) =>
    /\ HistId \in DOMAIN docs
    /\ FieldsOf(docs[HistId]) = FieldsOf(hist.msg.replace[1])

\* C5 amended: the same, for a replacement document whose own _id is the
\* message's identifier: an absent identifier is inserted, a present one is
\* overwritten and keeps no field the replacement lacks.
C5_ReplaceSomeLandsUnderOwnId ==
  (Applied("replace") /\ hist.msg.replace # <<>>
     /\ hist.msg.replace[1]["_id"] = HistId) =>
    /\ hist.error = NoError
    /\ HistId \in DOMAIN docs
    /\ docs[HistId] = hist.msg.replace[1]
    /\ FieldsOf(docs[HistId]) = FieldsOf(hist.msg.replace[1])

\* a present document with field b was overwritten by one without it
C5_Witness ==
  /\ Applied("replace")
  /\ hist.msg.replace # <<>>
  /\ PrePresent
  /\ hist.msg.replace[1]["_id"] = HistId
  /\ "b" \in DOMAIN hist.pre[HistId]
  /\ "b" \notin DOMAIN hist.msg.replace[1]
  /\ hist.error = NoError

\* ----------------------------------------------------------------------- C6
\* the document 'changed' is claimed to leave: proposed values set, fields
\* proposed as undefined removed, the other fields kept
ChangedResult(old, fields) ==
  LET gone == {k \in DOMAIN fields : fields[k] = undefined} IN
  [k \in (DOMAIN old \cup DOMAIN fields) \ gone |->
     IF k \in DOMAIN fields THEN fields[k] ELSE old[k]]

\* C6: 'changed' for a present document sets each field proposed with a
\* value, removes each field proposed as undefined and keeps every field
\* the message does not name.
C6_ChangedSetsUnsetsKeeps ==
  (Applied("changed") /\ hist.msg.hasFields /\ PrePresent) =>
    /\ hist.error = NoError
    /\ HistId \in DOMAIN docs
    /\ docs[HistId] = ChangedResult(hist.pre[HistId], hist.msg.fields)

\* {_id, a, b} changed with {b: undefined} became {_id, a}
C6_Witness ==
  /\ Applied("changed")
  /\ PrePresent
  /\ DOMAIN hist.pre[HistId] = {"_id", "a", "b"}
  /\ DOMAIN hist.msg.fields = {"b"}
  /\ hist.msg.fields["b"] = undefined
  /\ DOMAIN docs[HistId] = {"_id", "a"}
  /\ docs[HistId]["a"] = hist.pre[HistId]["a"]

\* ----------------------------------------------------------------------- C7
\* C7: 'changed' never hands the store an empty patch; when every proposed
\* value equals the current value of its field (or no field is proposed)
\* no store call is issued and the documents are unchanged.
C7_NoEmptyPatchForwarded ==
  (Applied("changed") /\ hist.msg.hasFields /\ PrePresent) =>
    /\ \A i \in DOMAIN hist.calls :
         /\ hist.calls[i].op = "update"
         /\ DOMAIN hist.calls[i].arg # {}
         /\ \A o \in DOMAIN hist.calls[i].arg : DOMAIN hist.calls[i].arg[o] # {}
    /\ (\A k \in DOMAIN hist.msg.fields :
          EJSONequals(Get(hist.pre[HistId], k), hist.msg.fields[k])) =>
         /\ hist.calls = <<>>
         /\ hist.error = NoError
         /\ docs = hist.pre

\* a 'changed' proposing the current values of both fields issued no call
C7_Witness ==
  /\ Applied("changed")
  /\ PrePresent
  /\ DOMAIN hist.msg.fields = {"a", "b"}
  /\ \A k \in {"a", "b"} : hist.msg.fields[k] = Get(hist.pre[HistId], k)
  /\ hist.msg.fields["a"] # undefined
  /\ hist.calls = <<>>

\* ----------------------------------------------------------------------- C8
\* the $set and $unset parts of a patch
SetOf(mod) == IF "$set" \in DOMAIN mod THEN mod["$set"] ELSE EmptyMap
UnsetOf(mod) == IF "$unset" \in DOMAIN mod THEN DOMAIN mod["$unset"] ELSE {}

\* C8: in the patch 'changed' hands the store, $set and $unset name
\* different fields; a field is in $set only with its proposed value, which
\* differs from the current one; a field is in $unset only if it is
\* proposed as undefined and the document has it; a field proposed as
\* undefined that the document lacks is in neither.
C8_PatchIsMinimal ==
  (Applied("changed") /\ hist.msg.hasFields /\ PrePresent) =>
    \A i \in DOMAIN hist.calls :
      LET mod == hist.calls[i].arg
          old == hist.pre[HistId]
          fields == hist.msg.fields
      IN /\ DOMAIN SetOf(mod) \cap UnsetOf(mod) = {}
         /\ \A k \in DOMAIN SetOf(mod) :
              /\ k \in DOMAIN fields
              /\ SetOf(mod)[k] = fields[k]
              /\ fields[k] # undefined
              /\ ~EJSONequals(Get(old, k), fields[k])
         /\ \A k \in UnsetOf(mod) :
              /\ k \in DOMAIN fields
              /\ fields[k] = undefined
              /\ k \in DOMAIN old
         /\ \A k \in DOMAIN fields :
              (fields[k] = undefined /\ k \notin DOMAIN old) =>
                k \notin DOMAIN SetOf(mod) \cup UnsetOf(mod)

\* a patch was forwarded that sets a and leaves out b, which was proposed as
\* undefined and is not in the document
C8_Witness ==
  /\ Applied("changed")
  /\ PrePresent
  /\ DOMAIN hist.pre[HistId] = {"_id", "a"}
  /\ DOMAIN hist.msg.fields = {"a", "b"}
  /\ hist.msg.fields["b"] = undefined
  /\ Len(hist.calls) = 1
  /\ DOMAIN hist.calls[1].arg = {"$set"}
  /\ DOMAIN hist.calls[1].arg["$set"] = {"a"}

\* ----------------------------------------------------------------------- C9
\* C9: beginUpdate pauses the observers exactly when batchSize > 1 or reset,
\* and never more than once; a bracket opened with batchSize > 1 and no
\* reset has paused once and resumed once when endUpdate returns, whatever
\* the number of update calls in between.
C9_SuspendOnceResumeOnce ==
  /\ hist.op = "beginUpdate" =>
       /\ Count(hist.calls, "pauseObservers") \in {0, 1}
       /\ Count(hist.calls, "pauseObservers") = 1 <=> (hist.batchSize > 1 \/ hist.reset)
       /\ paused <=> (hist.batchSize > 1 \/ hist.reset)
  /\ batch.pauses <= 1
  /\ inBatch => batch.resumes = 0
  /\ (hist.op = "endUpdate" /\ batch.size > 1 /\ ~batch.reset) =>
       /\ batch.pauses = 1
       /\ batch.resumes = 1
       /\ ~paused

\* a bracket opened with batchSize 2 was closed after a single update
C9_Witness ==
  /\ hist.op = "endUpdate"
  /\ batch.size = 2
  /\ ~batch.reset
  /\ batch.applies = 1
  /\ batch.pauses = 1
  /\ batch.resumes = 1

\* ---------------------------------------------------------------------- C10
\* C10 as claimed: the resume calls never outnumber the pause calls.
C10_ResumeNeverExceedsSuspend == nResume <= nPause

\* C10 amended: endUpdate resumes the observers exactly once whether or not
\* the matching beginUpdate paused them; over sequential batches the resume
\* calls number the closed brackets and the pause calls at most the opened
\* ones.
C10_ResumeIsUnconditional ==
  /\ hist.op = "endUpdate" => Count(hist.calls, "resumeObservers") = 1
  /\ (~inBatch /\ nBatches > 0) => batch.resumes = 1
  /\ nResume = nBatches - (IF inBatch THEN 1 ELSE 0)
  /\ nPause <= nBatches

\* endUpdate resumed for a bracket whose beginUpdate had not paused
C10_Witness ==
  /\ hist.op = "endUpdate"
  /\ batch.pauses = 0
  /\ batch.resumes = 1
  /\ nResume > nPause

\* ---------------------------------------------------------------------- C11
\* C11: beginUpdate with reset, whatever the batchSize, pauses the observers
\* and then removes every document, before any message of the batch: the
\* first message of the batch meets an empty replica, so an 'added' leaves
\* its document and nothing else, and a batch without messages ends empty.
C11_ResetClearsBeforeMessages ==
  /\ (hist.op = "beginUpdate" /\ hist.reset) =>
       /\ hist.calls = <<Call("pauseObservers", 0, EmptyMap), Call("removeAll", 0, EmptyMap)>>
       /\ DOMAIN docs = {}
       /\ paused
       /\ batch.applies = 0
  /\ (hist.op = "update" /\ batch.reset /\ batch.applies = 1) =>
       /\ DOMAIN hist.pre = {}
       /\ (hist.msg.msg = "added" /\ hist.msg.hasFields) =>
            docs = (HistId :> MkDoc(HistId, hist.msg.fields))
  /\ (hist.op = "endUpdate" /\ batch.reset /\ batch.applies = 0) => DOMAIN docs = {}

\* a beginUpdate(1, true) emptied a replica of two documents
C11_Witness ==
  /\ hist.op = "beginUpdate"
  /\ hist.reset
  /\ hist.batchSize = 1
  /\ DOMAIN hist.pre = Ids
  /\ DOMAIN docs = {}

\* ---------------------------------------------------------------------- C12
\* C12 as claimed: in every batch the observers are shown no state between
\* the one before beginUpdate and the one after endUpdate; a second state
\* shown inside one bracket makes the first an intermediate state.
C12_NoIntermediateStateObserved == batch.delivered <= 1

\* C12 amended: in a batch whose beginUpdate paused the observers
\* (batchSize > 1 or reset) nothing is shown before endUpdate, neither the
\* reset removal nor the state after a message; a batch opened with
\* batchSize <= 1 and no reset shows the state after each message that
\* changes the replica, so at most one state while at most one message is
\* applied.
C12_PausedBatchShowsNothing ==
  /\ (batch.size > 1 \/ batch.reset) =>
       /\ batch.delivered = 0
       /\ inBatch => paused
  /\ batch.applies <= 1 => batch.delivered <= 1

\* two messages each added a document in a reset batch and nothing was shown
C12_Witness ==
  /\ hist.op = "update"
  /\ batch.reset
  /\ batch.applies = 2
  /\ Cardinality(DOMAIN docs) = 2
  /\ paused
  /\ batch.delivered = 0

\* ---------------------------------------------------------------------- C13
\* C13 as claimed: an 'added' or 'changed' message without a fields mapping
\* makes update throw, with no store call issued.
C13_MissingFieldsIsFatal ==
  (hist.op = "update" /\ hist.msg.msg \in {"added", "changed"} /\ ~hist.msg.hasFields) =>
    /\ hist.error # NoError
    /\ hist.calls = <<>>
    /\ docs = hist.pre

\* C13 amended: a 'changed' message without a fields mapping makes update
\* throw with no store call issued (the change-on-missing error for an absent
\* identifier, a TypeError for a present one); an 'added' message without a
\* fields mapping throws only for a present identifier and otherwise inserts
\* a document that has the identifier and no field.
C13_MissingFieldsChangedThrowsAddedInserts ==
  /\ (Applied("changed") /\ ~hist.msg.hasFields) =>
       /\ hist.error = IF PrePresent THEN ErrTypeError ELSE ErrChangedMissing
       /\ hist.calls = <<>>
       /\ docs = hist.pre
  /\ (Applied("added") /\ ~hist.msg.hasFields) =>
       IF PrePresent
         THEN hist.error = ErrAddPresent /\ hist.calls = <<>> /\ docs = hist.pre
         ELSE /\ hist.error = NoError
              /\ hist.calls = <<Call("insert", HistId, MkDoc(HistId, EmptyMap))>>
              /\ docs = (HistId :> MkDoc(HistId, EmptyMap)) @@ hist.pre

\* a 'changed' without fields was refused for a present document
C13_Witness ==
  /\ Applied("changed")
  /\ ~hist.msg.hasFields
  /\ PrePresent
  /\ hist.error = ErrTypeError

\* ---------------------------------------------------------------------- C14
\* C14: the first retrieveOriginals after saveOriginals returns a mapping
\* whose keys are the identifiers mutated in the window, each with the
\* document as it was when the window opened (nothing, if it did not exist),
\* whatever was done to it later in the window; the next retrieveOriginals
\* returns an empty mapping.
C14_OriginalsOfTheWindow ==
  /\ ledger.open =>
       /\ DOMAIN ledger.saved = ledger.touched
       /\ \A i \in ledger.touched : ledger.saved[i] = lookup(ledger.atSave, i)
  /\ (~ledger.open /\ ledger.nRet = 1) =>
       /\ DOMAIN ledger.ret = ledger.touched
       /\ \A i \in ledger.touched : ledger.ret[i] = lookup(ledger.atSave, i)
  /\ (~ledger.open /\ ledger.nRet = 2) => DOMAIN ledger.ret = {}
  /\ ~ledger.open => DOMAIN ledger.saved = {}

\* both documents were mutated in the window, one of them twice, one of them
\* did not exist when the window opened, and the originals were retrieved
C14_Witness ==
  /\ ~ledger.open
  /\ ledger.nRet = 1
  /\ ledger.touched = Ids
  /\ ledger.nTouch = 3
  /\ \E i \in Ids : ledger.ret[i] = <<>>
  /\ \E i \in Ids : ledger.ret[i] # <<>> /\ lookup(docs, i) # ledger.ret[i]

\* ---------------------------------------------------------------------- C15
\* C15: a message meets the documents the message before it left, paused
\* observers or not: right after an 'added' of an identifier, a 'changed' or
\* a 'removed' of that identifier succeeds and an 'added' of it throws the
\* add-on-existing error.
C15_EarlierMessagesAreVisible ==
  (hist.op = "update" /\ hist.afterAdded) =>
    /\ PrePresent
    /\ (hist.msg.msg = "changed" /\ hist.msg.hasFields) =>
         /\ hist.error = NoError
         /\ docs[HistId] = ChangedResult(hist.pre[HistId], hist.msg.fields)
    /\ hist.msg.msg = "removed" => (hist.error = NoError /\ HistId \notin DOMAIN docs)
    /\ hist.msg.msg = "added" => hist.error = ErrAddPresent

\* with the observers paused, a 'changed' altered the document that the
\* message before it had added
C15_Witness ==
  /\ Applied("changed")
  /\ hist.afterAdded
  /\ paused
  /\ hist.error = NoError
  /\ docs # hist.pre

\* ---------------------------------------------------------------------- C16
\* C16: an 'added' for an absent identifier followed at once by a 'removed'
\* of that identifier throws nothing and leaves the replica as it was before
\* the two messages, without the identifier.
C16_AddedThenRemovedRestores ==
  [][(/\ Applied("added")
      /\ hist.error = NoError
      /\ hist'.op = "update"
      /\ hist'.afterAdded
      /\ hist'.msg.msg = "removed")
     => (/\ idParse(hist.msg.id) \notin DOMAIN hist.pre
         /\ hist'.error = NoError
         /\ idParse(hist.msg.id) \notin DOMAIN docs'
         /\ docs' = hist.pre)]_vars

\* a 'removed' right after the 'added' of the same identifier, in a replica
\* that holds another document
C16_Witness ==
  /\ Applied("removed")
  /\ hist.afterAdded
  /\ hist.error = NoError
  /\ DOMAIN docs # {}
  /\ HistId \notin DOMAIN docs

\* ---------------------------------------------------------------------- C17
\* C17 as claimed: update never calls insert with a document whose
\* identifier is present, and never calls update or remove for an absent
\* identifier.
C17_StoreContractKept ==
  hist.op = "update" =>
    \A i \in DOMAIN hist.calls :
      /\ hist.calls[i].op = "insert" => hist.calls[i].id \notin DOMAIN hist.pre
      /\ hist.calls[i].op \in {"update", "remove"} => hist.calls[i].id \in DOMAIN hist.pre

\* the 'replace' that inserts a document carrying another identifier than
\* the message's
ReplaceInsertsElsewhere ==
  /\ Applied("replace")
  /\ hist.msg.replace # <<>>
  /\ ~PrePresent
  /\ hist.msg.replace[1]["_id"] # HistId

\* C17 amended: update never calls update or remove for an absent
\* identifier, and calls insert with a document whose identifier is present
\* in one case only: a 'replace' for an absent identifier inserts the
\* replacement as given, under the replacement's own identifier, which may be
\* another one and present.
C17_StoreContractKeptButForReplaceInsert ==
  hist.op = "update" =>
    /\ \A i \in DOMAIN hist.calls :
         /\ hist.calls[i].op = "insert" =>
              (hist.calls[i].id \notin DOMAIN hist.pre \/ ReplaceInsertsElsewhere)
         /\ hist.calls[i].op \in {"update", "remove"} =>
              hist.calls[i].id \in DOMAIN hist.pre
    /\ (Applied("replace") /\ hist.msg.replace # <<>> /\ ~PrePresent) =>
         hist.calls = <<Call("insert", hist.msg.replace[1]["_id"], hist.msg.replace[1])>>
    /\ (hist.error = ErrStore /\ ~ReplaceInsertsElsewhere) =>
         (Applied("replace") /\ hist.msg.replace # <<>> /\ PrePresent
            /\ hist.msg.replace[1]["_id"] # HistId)

\* a 'replace' for an absent identifier inserted a document carrying the
\* other identifier, absent as well
C17_Witness ==
  /\ ReplaceInsertsElsewhere
  /\ DOMAIN hist.pre = {}
  /\ hist.error = NoError
  /\ DOMAIN docs = {hist.msg.replace[1]["_id"]}

\* ---------------------------------------------------------------------- C18
\* C18 as claimed: update(msg) leaves every identifier other than msg.id as
\* it was, present with the same document or absent.
C18_OnlyTheNamedDocumentChanges ==
  hist.op = "update" =>
    \A i \in Ids \ {HistId} : lookup(docs, i) = lookup(hist.pre, i)

\* C18 amended: the same, except for a 'replace' for an absent identifier
\* whose replacement carries another identifier: it changes at most the
\* document under the replacement's identifier and leaves msg.id absent.
C18_OnlyTheNamedDocumentChangesButForReplaceInsert ==
  hist.op = "update" =>
    IF ReplaceInsertsElsewhere
      THEN \A i \in Ids \ {hist.msg.replace[1]["_id"]} : lookup(docs, i) = lookup(hist.pre, i)
      ELSE \A i \in Ids \ {HistId} : lookup(docs, i) = lookup(hist.pre, i)

\* a 'changed' altered its document in a replica of two documents
C18_Witness ==
  /\ Applied("changed")
  /\ Cardinality(DOMAIN hist.pre) = 2
  /\ docs[HistId] # hist.pre[HistId]
  /\ \A i \in Ids \ {HistId} : docs[i] = hist.pre[i]

\* ---------------------------------------------------------------------- C19
\* C19: update issues no pause and no resume, whether it returns or throws:
\* through a bracket the observers stay as beginUpdate left them, so after a
\* message fails in a paused batch they are still paused, and they are
\* resumed once endUpdate has run.
C19_UpdateLeavesSuspensionAlone ==
  /\ hist.op = "update" =>
       /\ Count(hist.calls, "pauseObservers") = 0
       /\ Count(hist.calls, "resumeObservers") = 0
  /\ inBatch =>
       /\ paused <=> (batch.size > 1 \/ batch.reset)
       /\ batch.resumes = 0
  /\ ~inBatch => ~paused

\* a message failed in a paused batch and the observers are still paused
C19_Witness ==
  /\ hist.op = "update"
  /\ hist.error = ErrRemovedMissing
  /\ inBatch
  /\ paused
  /\ batch.pauses = 1
  /\ batch.resumes = 0

====
